---------------------------- MODULE Spec2Model ----------------------------
(***************************************************************************)
(* A model of the Node provider of nixpacks (src/providers/node/mod.rs):   *)
(* the functions that turn a project tree and an environment into a build  *)
(* plan.  The state is one project snapshot (app, environment, the answers *)
(* of the two monorepo delegates) and the last call made on it with its    *)
(* return value.  Every function of the provider is an operator, and every *)
(* public entry point an action that stores what the function returns.     *)
(*                                                                         *)
(* Strings are TLA+ strings; characters are taken with SubSeq.             *)
(***************************************************************************)
EXTENDS Integers, Sequences, FiniteSets, TLC

VARIABLES
    app,          \* the project tree: [source, fs]
    environment,  \* the NIXPACKS_* configuration variables
    nx,           \* what the Nx delegate answers for this tree
    turbo,        \* what the Turborepo delegate answers for this tree
    call,         \* the entry point called last ("" before any call)
    args,         \* its arguments other than app and environment
    ret           \* what it returned, in the field of that entry point

vars == <<app, environment, nx, turbo, call, args, ret>>

-----------------------------------------------------------------------------
(* Option<T> and Result<T>                                                 *)

None == [some |-> FALSE]
Some(v) == [some |-> TRUE, val |-> v]
Err == [ok |-> FALSE]
Ok(v) == [ok |-> TRUE, val |-> v]

\* Option::or
OrElse(a, b) == IF a.some THEN a ELSE b

\* Result<Option<T>>: is it Ok(Some(_))
IsOkSome(r) == r.ok /\ r.val.some

-----------------------------------------------------------------------------
(* Program constants                                                       *)

DEFAULT_NODE_PKG_NAME == "nodejs-16_x"
AVAILABLE_NODE_VERSIONS == {14, 16, 18}
NODE_OVERLAY == "https://github.com/railwayapp/nix-npm-overlay/archive/main.tar.gz"

YARN_CACHE_DIR == "/usr/local/share/.cache/yarn/v6"
PNPM_CACHE_DIR == "/root/.cache/pnpm"
NPM_CACHE_DIR == "/root/.npm"
BUN_CACHE_DIR == "/root/.bun"
CYPRESS_CACHE_DIR == "/root/.cache/Cypress"
NODE_MODULES_CACHE_DIR == "node_modules/.cache"

-----------------------------------------------------------------------------
(* Strings                                                                 *)

Char(s, i) == SubSeq(s, i, i)
Digits == {"0", "1", "2", "3", "4", "5", "6", "7", "8", "9"}
Whitespace == {" ", "\n", "\t", "\r"}

\* str::starts_with
StartsWith(s, p) == Len(s) >= Len(p) /\ SubSeq(s, 1, Len(p)) = p

\* str::contains
Contains(s, p) ==
    \E i \in 1..(Len(s) - Len(p) + 1) : SubSeq(s, i, i + Len(p) - 1) = p

\* str::trim: the surrounding white space removed
RECURSIVE TrimStart(_)
TrimStart(s) ==
    IF s # "" /\ Char(s, 1) \in Whitespace THEN TrimStart(Tail(s)) ELSE s

RECURSIVE TrimEnd(_)
TrimEnd(s) ==
    IF s # "" /\ Char(s, Len(s)) \in Whitespace
    THEN TrimEnd(SubSeq(s, 1, Len(s) - 1))
    ELSE s

Trim(s) == TrimEnd(TrimStart(s))

\* str::replace(c, ""): every occurrence of the character c removed
RECURSIVE RemoveChar(_, _)
RemoveChar(s, c) ==
    IF s = "" THEN ""
    ELSE (IF Char(s, 1) = c THEN "" ELSE Char(s, 1)) \o RemoveChar(Tail(s), c)

\* The longest prefix of s made of digits: what a greedy (\d*) or (\d+) takes.
RECURSIVE DigitPrefix(_)
DigitPrefix(s) ==
    IF s # "" /\ Char(s, 1) \in Digits
    THEN Char(s, 1) \o DigitPrefix(Tail(s))
    ELSE ""

DigitVal(c) == CHOOSE d \in 0..9 : ToString(d) = c

\* str::parse::<u32>() of a string of digits.  A u32 is kept as two 16-bit
\* limbs [hi, lo] and the digits are folded in with checked arithmetic, as
\* the standard library does; the empty string and an overflow are errors.
RECURSIVE ParseFrom(_, _)
ParseFrom(acc, s) ==
    IF s = "" THEN Ok(acc)
    ELSE LET lo10 == acc.lo * 10 + DigitVal(Char(s, 1))
             hi10 == acc.hi * 10 + (lo10 \div 65536)
         IN  IF hi10 >= 65536 THEN Err
             ELSE ParseFrom([hi |-> hi10, lo |-> lo10 % 65536], Tail(s))

ParseU32(s) ==
    IF s = "" \/ \E i \in 1..Len(s) : Char(s, i) \notin Digits THEN Err
    ELSE ParseFrom([hi |-> 0, lo |-> 0], s)

\* format!("{}", version) for the versions the provider formats
U32ToString(v) == ToString(v.hi * 65536 + v.lo)

-----------------------------------------------------------------------------
(* Version resolution                                                      *)

\* version_number_to_pkg with the membership test dropped for small numbers
version_number_to_pkg_any(version) ==
    IF version.hi = 0
    THEN "nodejs-" \o U32ToString(version) \o "_x"
    ELSE DEFAULT_NODE_PKG_NAME

version_number_to_pkg(version) ==
    IF version.hi = 0 /\ version.lo \in AVAILABLE_NODE_VERSIONS
    THEN "nodejs-" \o U32ToString(version) \o "_x"
    ELSE DEFAULT_NODE_PKG_NAME

\* The first capture group of
\*   ^(\d*)(?:\.?(?:\d*|[xX]?)?)(?:\.?(?:\d*|[xX]?)?)
\* Every part of the pattern can match the empty string, so the pattern
\* matches every input at offset 0 and group 1 is the greedy digit prefix.
VersionRegexCapture(s) == Some(DigitPrefix(s))

\* The first capture group of ^>(\d+): the pattern with its = left out
RangeRegexCapture_no_equals(s) ==
    IF StartsWith(s, ">") /\ DigitPrefix(SubSeq(s, 2, Len(s))) # ""
    THEN Some(DigitPrefix(SubSeq(s, 2, Len(s))))
    ELSE None

\* The first capture group of ^>=(\d+), when the pattern matches.
RangeRegexCapture(s) ==
    IF StartsWith(s, ">=") /\ DigitPrefix(SubSeq(s, 3, Len(s))) # ""
    THEN Some(DigitPrefix(SubSeq(s, 3, Len(s))))
    ELSE None

\* parse_regex_into_pkg, given the first capture of the first match
parse_regex_into_pkg(capture) ==
    IF capture.some /\ ParseU32(capture.val).ok
    THEN Some(version_number_to_pkg(ParseU32(capture.val).val))
    ELSE None

-----------------------------------------------------------------------------
(* The project tree (App) and the environment                              *)

\* A file of the tree: absent, present but unreadable, or present with its
\* text and, for a JSON or YAML file, what the text deserializes to.
NoParse == [ok |-> FALSE]
Absent == [kind |-> "absent", text |-> "", parse |-> NoParse]
Unreadable == [kind |-> "unreadable", text |-> "", parse |-> NoParse]
TextFile(t) == [kind |-> "file", text |-> t, parse |-> NoParse]
Malformed(t) == [kind |-> "file", text |-> t, parse |-> NoParse]
Parsed(t, v) == [kind |-> "file", text |-> t, parse |-> Ok(v)]

\* PackageJson::default() and Yarnrc::default()
PackageJsonDefault ==
    [scripts |-> None, engines_node |-> None, main |-> None,
     dependencies |-> None, dev_dependencies |-> None]
YarnrcDefault == [yarn_path |-> None]

\* The path of a file relative to the source directory.  Path::join keeps an
\* absolute argument as it is, so the App methods take either form.
RelPath(a, name) ==
    IF StartsWith(name, a.source \o "/")
    THEN SubSeq(name, Len(a.source) + 2, Len(name))
    ELSE name

FileAt(a, name) ==
    IF RelPath(a, name) \in DOMAIN a.fs THEN a.fs[RelPath(a, name)] ELSE Absent

\* App::includes_file
includes_file(a, name) == FileAt(a, name).kind # "absent"

\* App::read_file
read_file(a, name) ==
    IF FileAt(a, name).kind = "file" THEN Ok(FileAt(a, name).text) ELSE Err

\* App::read_json and App::read_yaml: the file read and deserialized
read_json(a, name) ==
    IF FileAt(a, name).kind = "file" THEN FileAt(a, name).parse ELSE Err

read_yaml(a, name) == read_json(a, name)

\* Result::unwrap_or_default
UnwrapOr(r, d) == IF r.ok THEN r.val ELSE d

\* Environment::get_config_variable("NODE_VERSION")
get_config_variable(env, name) == env[name]

-----------------------------------------------------------------------------
(* NodeProvider::get_nix_node_pkg                                          *)

\* The .nvmrc hint: Err when the file exists and cannot be read
nvmrc_node_version(a) ==
    IF includes_file(a, ".nvmrc")
    THEN IF read_file(a, ".nvmrc").ok
         THEN Ok(Some(RemoveChar(Trim(read_file(a, ".nvmrc").val), "v")))
         ELSE Err
    ELSE Ok(None)

\* The hints combined in another order: the manifest before the override
select_node_version_engines_first(env_v, pkg_v, nvmrc_v) ==
    OrElse(OrElse(pkg_v, env_v), nvmrc_v)

\* env_node_version.or(pkg_node_version).or(nvmrc_node_version)
select_node_version(env_v, pkg_v, nvmrc_v) ==
    OrElse(OrElse(env_v, pkg_v), nvmrc_v)

\* The package a selected version string resolves to (lines 240-257)
resolve_node_version(node_version) ==
    IF node_version = "*" THEN DEFAULT_NODE_PKG_NAME
    ELSE IF parse_regex_into_pkg(VersionRegexCapture(node_version)).some
    THEN parse_regex_into_pkg(VersionRegexCapture(node_version)).val
    ELSE IF parse_regex_into_pkg(RangeRegexCapture(node_version)).some
    THEN parse_regex_into_pkg(RangeRegexCapture(node_version)).val
    ELSE DEFAULT_NODE_PKG_NAME

get_nix_node_pkg(package_json, a, env) ==
    LET env_node_version == get_config_variable(env, "NODE_VERSION")
        pkg_node_version == package_json.engines_node
        nvmrc == nvmrc_node_version(a)
    IN  IF ~nvmrc.ok THEN Err
        ELSE LET node_version ==
                     select_node_version(env_node_version, pkg_node_version,
                                         nvmrc.val)
             IN  IF ~node_version.some THEN Ok(DEFAULT_NODE_PKG_NAME)
                 ELSE Ok(resolve_node_version(node_version.val))

-----------------------------------------------------------------------------
(* Package manager                                                         *)

\* The lockfiles consulted in another order: yarn.lock before pnpm-lock.yaml
get_package_manager_yarn_first(a) ==
    IF includes_file(a, "yarn.lock") THEN "yarn"
    ELSE IF includes_file(a, "pnpm-lock.yaml") THEN "pnpm"
    ELSE IF includes_file(a, "bun.lockb") THEN "bun"
    ELSE "npm"

get_package_manager(a) ==
    IF includes_file(a, "pnpm-lock.yaml") THEN "pnpm"
    ELSE IF includes_file(a, "yarn.lock") THEN "yarn"
    ELSE IF includes_file(a, "bun.lockb") THEN "bun"
    ELSE "npm"

get_package_manager_dlx_command(a) ==
    LET pkg_manager == get_package_manager(a)
    IN  IF pkg_manager = "pnpm" THEN "pnpx"
        ELSE IF pkg_manager = "yarn" THEN "yarn"
        ELSE "npx"

\* get_install_command with the clean install as the default of npm
get_install_command_default_ci(a) ==
    IF ~includes_file(a, "package.json") THEN None
    ELSE LET package_manager == get_package_manager(a)
         IN  IF package_manager = "pnpm" THEN Some("pnpm i --frozen-lockfile")
             ELSE IF package_manager = "yarn"
             THEN IF includes_file(a, ".yarnrc.yml")
                  THEN LET yarnrc_yml ==
                               UnwrapOr(read_yaml(a, ".yarnrc.yml"), YarnrcDefault)
                       IN  IF yarnrc_yml.yarn_path.some
                           THEN Some("yarn set version ./"
                                     \o yarnrc_yml.yarn_path.val
                                     \o " && yarn install --check-cache")
                           ELSE Some("yarn set version berry && yarn install --check-cache")
                  ELSE Some("yarn install --frozen-lockfile")
             ELSE IF includes_file(a, "package-lock.json") THEN Some("npm ci")
             ELSE IF includes_file(a, "bun.lockb") THEN Some("bun i --no-save")
             ELSE Some("npm ci")

get_install_command(a) ==
    IF ~includes_file(a, "package.json") THEN None
    ELSE LET package_manager == get_package_manager(a)
         IN  IF package_manager = "pnpm" THEN Some("pnpm i --frozen-lockfile")
             ELSE IF package_manager = "yarn"
             THEN IF includes_file(a, ".yarnrc.yml")
                  THEN LET yarnrc_yml ==
                               UnwrapOr(read_yaml(a, ".yarnrc.yml"), YarnrcDefault)
                       IN  IF yarnrc_yml.yarn_path.some
                           THEN Some("yarn set version ./"
                                     \o yarnrc_yml.yarn_path.val
                                     \o " && yarn install --check-cache")
                           ELSE Some("yarn set version berry && yarn install --check-cache")
                  ELSE Some("yarn install --frozen-lockfile")
             ELSE IF includes_file(a, "package-lock.json") THEN Some("npm ci")
             ELSE IF includes_file(a, "bun.lockb") THEN Some("bun i --no-save")
             ELSE Some("npm i")

get_package_manager_cache_dir(a) ==
    LET package_manager == get_package_manager(a)
    IN  IF package_manager = "yarn" THEN YARN_CACHE_DIR
        ELSE IF package_manager = "pnpm" THEN PNPM_CACHE_DIR
        ELSE IF package_manager = "bun" THEN BUN_CACHE_DIR
        ELSE NPM_CACHE_DIR

get_executor(a) ==
    IF get_package_manager(a) = "bun" THEN "bun" ELSE "node"

\* Pkg::new and Pkg::from_overlay
Pkg(name) == [name |-> name, overlay |-> None]
from_overlay(pkg, url) == [pkg EXCEPT !.overlay = Some(url)]

\* The package of the chosen manager (lines 350-369)
pm_pkg(a) ==
    LET package_manager == get_package_manager(a)
    IN  IF package_manager = "pnpm"
        THEN IF StartsWith(UnwrapOr(read_file(a, "pnpm-lock.yaml"), ""),
                           "lockfileVersion: 5.3")
             THEN Pkg("pnpm-6_x") ELSE Pkg("pnpm-7_x")
        ELSE IF package_manager = "yarn" THEN Pkg("yarn-1_x")
        ELSE IF package_manager = "bun" THEN Pkg("bun")
        ELSE IF Contains(UnwrapOr(read_file(a, "package-lock.json"), ""),
                         "\"lockfileVersion\": 1")
             THEN Pkg("npm-6_x") ELSE Pkg("npm-8_x")

\* get_nix_packages with the runtime pushed for every manager
get_nix_packages_always_node(a, env) ==
    LET package_json ==
            IF includes_file(a, "package.json")
            THEN read_json(a, "package.json")
            ELSE Ok(PackageJsonDefault)
    IN  IF ~package_json.ok THEN Err
        ELSE LET node_pkg == get_nix_node_pkg(package_json.val, a, env)
             IN  IF ~node_pkg.ok THEN Err
                 ELSE Ok(<<Pkg(node_pkg.val),
                           from_overlay(pm_pkg(a), NODE_OVERLAY)>>)

get_nix_packages(a, env) ==
    LET package_json ==
            IF includes_file(a, "package.json")
            THEN read_json(a, "package.json")
            ELSE Ok(PackageJsonDefault)
    IN  IF ~package_json.ok THEN Err
        ELSE LET node_pkg == get_nix_node_pkg(package_json.val, a, env)
             IN  IF ~node_pkg.ok THEN Err
                 ELSE Ok((IF get_package_manager(a) # "bun"
                          THEN <<Pkg(node_pkg.val)>> ELSE <<>>)
                         \o <<from_overlay(pm_pkg(a), NODE_OVERLAY)>>)

uses_node_dependency(a, dependency) ==
    \E file \in {"package.json", "package-lock.json", "yarn.lock", "pnpm-lock.yaml"} :
        Contains(UnwrapOr(read_file(a, file), ""), dependency)

-----------------------------------------------------------------------------
(* Dependency scan                                                         *)

\* The index of the last "/" of a path, 0 when it has none
RECURSIVE LastSlash(_, _)
LastSlash(path, i) ==
    IF i = 0 THEN 0
    ELSE IF Char(path, i) = "/" THEN i
    ELSE LastSlash(path, i - 1)

\* Path::file_name and Path::parent (to_slash leaves "/" paths as they are)
FileName(path) == SubSeq(path, LastSlash(path, Len(path)) + 1, Len(path))
Parent(path) == SubSeq(path, 1, LastSlash(path, Len(path)) - 1)

\* A set as a sequence, in an order the provider does not control
RECURSIVE SetToSeq(_)
SetToSeq(S) ==
    IF S = {} THEN <<>>
    ELSE LET x == CHOOSE y \in S : TRUE
         IN  <<x>> \o SetToSeq(S \ {x})

\* App::find_files("**/package.json"): the full paths of the files of that
\* name anywhere under the source directory
find_files(a, file_name) ==
    SetToSeq({a.source \o "/" \o rel : rel \in {r \in DOMAIN a.fs :
                 a.fs[r].kind # "absent" /\ FileName(r) = file_name}})

\* App::strip_source_path
strip_source_path(a, path) == RelPath(a, path)

\* The test of lines 395-399 and 423-427: the text of the full path
in_node_modules(path) == Contains(path, "node_modules")

Keys(m) == IF m.some THEN m.val ELSE {}

get_deps_from_package_json(json) ==
    Keys(json.dependencies) \cup Keys(json.dev_dependencies)

\* The loop of find_next_packages over the files left to visit
RECURSIVE find_next_loop(_, _, _)
find_next_loop(a, files, cache_dirs) ==
    IF files = <<>> THEN Ok(cache_dirs)
    ELSE LET file == Head(files)
         IN  IF in_node_modules(file)
             THEN find_next_loop(a, Tail(files), cache_dirs)
             ELSE LET json == read_json(a, file)
                  IN  IF ~json.ok THEN Err
                      ELSE IF "next" \in get_deps_from_package_json(json.val)
                      THEN find_next_loop(a, Tail(files),
                               Append(cache_dirs,
                                      Parent(strip_source_path(a, file))))
                      ELSE find_next_loop(a, Tail(files), cache_dirs)

find_next_packages(a) ==
    find_next_loop(a, find_files(a, "package.json"), <<>>)

\* The loop of get_all_deps over the files left to visit
RECURSIVE get_all_deps_loop(_, _, _)
get_all_deps_loop(a, files, all_deps) ==
    IF files = <<>> THEN Ok(all_deps)
    ELSE LET file == Head(files)
         IN  IF in_node_modules(file)
             THEN get_all_deps_loop(a, Tail(files), all_deps)
             ELSE LET json == read_json(a, file)
                  IN  IF ~json.ok THEN Err
                      ELSE get_all_deps_loop(a, Tail(files),
                               all_deps \cup get_deps_from_package_json(json.val))

get_all_deps(a) ==
    get_all_deps_loop(a, find_files(a, "package.json"), {})

-----------------------------------------------------------------------------
(* Build and start commands                                                *)

\* The monorepo delegates (mod nx, mod turborepo), by what they answer
is_nx_monorepo(n) == n.applicable
get_nx_build_cmd(n) == n.build_cmd
get_nx_start_cmd(n) == n.start_cmd
is_turborepo(t) == t.applicable
get_actual_build_cmd(t) == t.build_cmd
get_actual_start_cmd(t) == t.start_cmd

has_script(a, script) ==
    LET package_json == UnwrapOr(read_json(a, "package.json"), PackageJsonDefault)
    IN  package_json.scripts.some /\ script \in package_json.scripts.val

\* get_build_cmd with the two delegates consulted in the other order
get_build_cmd_turbo_first(a, n, t) ==
    IF is_turborepo(t) /\ IsOkSome(get_actual_build_cmd(t))
    THEN Ok(Some(get_actual_build_cmd(t).val.val))
    ELSE IF is_nx_monorepo(n) /\ get_nx_build_cmd(n).some
    THEN Ok(Some(get_nx_build_cmd(n).val))
    ELSE IF has_script(a, "build")
    THEN Ok(Some(get_package_manager(a) \o " run build"))
    ELSE Ok(None)

get_build_cmd(a, n, t) ==
    IF is_nx_monorepo(n) /\ get_nx_build_cmd(n).some
    THEN Ok(Some(get_nx_build_cmd(n).val))
    ELSE IF is_turborepo(t) /\ IsOkSome(get_actual_build_cmd(t))
    THEN Ok(Some(get_actual_build_cmd(t).val.val))
    ELSE IF has_script(a, "build")
    THEN Ok(Some(get_package_manager(a) \o " run build"))
    ELSE Ok(None)

\* The tiers of get_start_cmd below the two delegates (lines 193-210)
start_cmd_fallback(a) ==
    LET executor == get_executor(a)
        package_json == UnwrapOr(read_json(a, "package.json"), PackageJsonDefault)
        package_manager == get_package_manager(a)
    IN  IF has_script(a, "start")
        THEN Some(package_manager \o " run start")
        ELSE IF package_json.main.some /\ includes_file(a, package_json.main.val)
        THEN Some(executor \o " " \o package_json.main.val)
        ELSE IF includes_file(a, "index.js")
        THEN Some(executor \o " index.js")
        ELSE IF includes_file(a, "index.ts") /\ package_manager = "bun"
        THEN Some("bun index.ts")
        ELSE None

\* get_start_cmd with index.ts tried whatever the manager
get_start_cmd_any_index_ts(a, n, t) ==
    IF is_nx_monorepo(n) /\ ~get_nx_start_cmd(n).ok THEN Err
    ELSE IF is_nx_monorepo(n) /\ get_nx_start_cmd(n).val.some
    THEN Ok(Some(get_nx_start_cmd(n).val.val))
    ELSE IF is_turborepo(t) /\ IsOkSome(get_actual_start_cmd(t))
    THEN Ok(Some(get_actual_start_cmd(t).val.val))
    ELSE IF ~start_cmd_fallback(a).some /\ includes_file(a, "index.ts")
    THEN Ok(Some("bun index.ts"))
    ELSE Ok(start_cmd_fallback(a))

get_start_cmd(a, n, t) ==
    IF is_nx_monorepo(n) /\ ~get_nx_start_cmd(n).ok THEN Err
    ELSE IF is_nx_monorepo(n) /\ get_nx_start_cmd(n).val.some
    THEN Ok(Some(get_nx_start_cmd(n).val.val))
    ELSE IF is_turborepo(t) /\ IsOkSome(get_actual_start_cmd(t))
    THEN Ok(Some(get_actual_start_cmd(t).val.val))
    ELSE Ok(start_cmd_fallback(a))

-----------------------------------------------------------------------------
(* NodeProvider::get_build_plan                                            *)

PUPPETEER_APT_PKGS ==
    <<"libnss3", "libatk1.0-0", "libatk-bridge2.0-0", "libcups2", "libgbm1",
      "libasound2", "libpangocairo-1.0-0", "libxss1", "libgtk-3-0",
      "libxshmfence1", "libglu1">>

CANVAS_LIBS == <<"libuuid", "libGL">>

\* Phase::setup, Phase::install, Phase::build: a phase with its command
Phase(name, cmd) ==
    [name |-> name, cmd |-> cmd, nix_pkgs |-> <<>>, apt_pkgs |-> <<>>,
     nix_libs |-> <<>>, cache_directories |-> <<>>, paths |-> <<>>]

get_node_environment_variables ==
    {<<"NODE_ENV", "production">>, <<"NPM_CONFIG_PRODUCTION", "false">>,
     <<"CI", "true">>}

\* The cache directory of one directory find_next_packages returned
next_cache_dir(dir) ==
    IF dir = "" THEN ".next/cache" ELSE dir \o "/" \o ".next/cache"

\* The loop over the directories find_next_packages returned
RECURSIVE next_cache_dirs_loop(_)
next_cache_dirs_loop(dirs) ==
    IF dirs = <<>> THEN <<>>
    ELSE <<next_cache_dir(Head(dirs))>> \o next_cache_dirs_loop(Tail(dirs))

setup_phase(a, pkgs) ==
    LET setup == [Phase("setup", None) EXCEPT !.nix_pkgs = pkgs]
    IN  IF uses_node_dependency(a, "puppeteer")
        THEN [setup EXCEPT !.apt_pkgs = PUPPETEER_APT_PKGS]
        ELSE IF uses_node_dependency(a, "canvas")
        THEN [setup EXCEPT !.nix_libs = CANVAS_LIBS]
        ELSE setup

install_phase(a, all_deps) ==
    [Phase("install", get_install_command(a)) EXCEPT
        !.cache_directories =
            <<get_package_manager_cache_dir(a)>>
            \o (IF "cypress" \in all_deps THEN <<CYPRESS_CACHE_DIR>> ELSE <<>>),
        !.paths = <<"/app/node_modules/.bin">>]

build_phase(build_cmd, next_cache_dirs) ==
    [Phase("build", build_cmd) EXCEPT
        !.cache_directories =
            next_cache_dirs_loop(next_cache_dirs) \o <<NODE_MODULES_CACHE_DIR>>]

get_build_plan(a, env, n, t) ==
    LET pkgs == get_nix_packages(a, env)
        all_deps == get_all_deps(a)
        build_cmd == get_build_cmd(a, n, t)
        next_cache_dirs == find_next_packages(a)
        start == get_start_cmd(a, n, t)
    IN  IF ~pkgs.ok THEN Err
        ELSE IF ~all_deps.ok THEN Err
        ELSE IF ~build_cmd.ok THEN Err
        ELSE IF ~next_cache_dirs.ok THEN Err
        ELSE IF ~start.ok THEN Err
        ELSE Ok(Some(
            [phases |-> <<setup_phase(a, pkgs.val),
                          install_phase(a, all_deps.val),
                          build_phase(build_cmd.val, next_cache_dirs.val)>>,
             start_phase |-> start.val,
             variables |-> get_node_environment_variables]))

-----------------------------------------------------------------------------
(* Project snapshots                                                       *)

\* The longest version hint enumerated character by character
MaxLen == 3

HintAlphabet == {"1", "4", "6", "8", ".", "x", ">", "=", "*", "v", " "}

\* Every string over the alphabet of at most n characters
RECURSIVE Words(_)
Words(n) ==
    IF n = 0 THEN {""}
    ELSE Words(n - 1) \cup {w \o c : w \in Words(n - 1), c \in HintAlphabet}

\* Version constraints written as users write them
MajorNumerals == {"14", "16", "18", "15", "014", "8"}
VersionParts == {"x", "X", "8", "10"}
VersionForms ==
    MajorNumerals
    \cup {m \o "." \o p : m \in MajorNumerals, p \in VersionParts}
    \cup {m \o "." \o p \o "." \o q :
            m \in MajorNumerals, p \in VersionParts, q \in VersionParts}
RangeForms == {">=" \o f \o u : f \in VersionForms, u \in {"", " <16"}}
OtherHints ==
    {"18.4.2", ">=14.10.3 <16", "lts/*", "^14.0.0", "~18", "16abc", "14.x || 16.x",
     "4294967295", "4294967296", "99999999999", ">=4294967296", ">= 14",
     "00000000014"}

HintStrings == Words(MaxLen) \cup VersionForms \cup RangeForms \cup OtherHints

\* The hints combined with one another
FewHints == {"14", "18.x", ">=16", "*", "15", "", "v18"}

\* What a .nvmrc holds around a version
NvmrcTexts(h) == {h, "v" \o h, h \o "\n", " v" \o h \o "\r\n", "\tv" \o h}

Opt(S) == {None} \cup {Some(x) : x \in S}

\* The text of a package.json: only what the provider looks for in it matters
RECURSIVE JoinNames(_)
JoinNames(names) ==
    IF names = <<>> THEN ""
    ELSE "\"" \o Head(names) \o "\":\"*\"" \o
         (IF Len(names) > 1 THEN "," ELSE "") \o JoinNames(Tail(names))

DepsField(name, m) ==
    IF m.some
    THEN <<"\"" \o name \o "\":{" \o JoinNames(SetToSeq(Keys(m))) \o "}">>
    ELSE <<>>

PackageJsonText(json) ==
    LET fields == DepsField("dependencies", json.dependencies)
                  \o DepsField("devDependencies", json.dev_dependencies)
    IN  "{" \o (IF fields = <<>> THEN ""
                ELSE fields[1] \o (IF Len(fields) > 1 THEN "," \o fields[2] ELSE ""))
        \o "}"

PackageJsonFile(json) == Parsed(PackageJsonText(json), json)

SOURCE == "/app"

\* A tree from the files present in it
Tree(source, fs) == [source |-> source, fs |-> fs]
NoFiles == [p \in {} |-> Absent]
File(path, f) == IF f.kind = "absent" THEN NoFiles ELSE (path :> f)

NoDelegate == [applicable |-> FALSE, build_cmd |-> None, start_cmd |-> Ok(None)]
NoTurbo == [applicable |-> FALSE, build_cmd |-> Ok(None), start_cmd |-> Ok(None)]

\* Before any call: no arguments, and in ret, which has one field for each
\* entry point, nothing returned
NoArgs == [package_json |-> None]
NoResult ==
    [get_nix_node_pkg |-> Err, get_package_manager |-> "",
     get_install_command |-> None, get_nix_packages |-> Err,
     get_build_cmd |-> Err, get_start_cmd |-> Err,
     find_next_packages |-> Err, get_all_deps |-> Err,
     get_build_plan |-> Err]

\* The snapshots of the version resolver: one hint of any form in one place,
\* or a few hints in every combination of places.
EnginesFile(e) ==
    IF e.some
    THEN File("package.json",
              PackageJsonFile([PackageJsonDefault EXCEPT !.engines_node = e]))
    ELSE NoFiles

VersionInputs ==
    {<<Some(h), None, Absent>> : h \in HintStrings}
    \cup {<<None, Some(h), Absent>> : h \in HintStrings}
    \cup {<<None, None, TextFile(t)>> :
            t \in HintStrings \cup UNION {NvmrcTexts(h) : h \in VersionForms}}
    \cup {<<e, g, Absent>> : e \in Opt(FewHints), g \in Opt(FewHints)}
    \cup {<<e, g, TextFile(t)>> :
            e \in Opt(FewHints), g \in Opt(FewHints), t \in FewHints}
    \cup {<<e, g, Unreadable>> : e \in Opt({"14"}), g \in Opt({"18.x"})}

InitVersion ==
    /\ \E inp \in VersionInputs :
         /\ environment = [NODE_VERSION |-> inp[1]]
         /\ app = Tree(SOURCE, EnginesFile(inp[2]) @@ File(".nvmrc", inp[3]))
    /\ nx = NoDelegate
    /\ turbo = NoTurbo
    /\ call = ""
    /\ args = NoArgs
    /\ ret = NoResult

\* The snapshots of the package-manager decisions: every combination of the
\* lockfiles and of what they and .yarnrc.yml hold, around manifests that are
\* absent, malformed or well formed.
PnpmLockFiles ==
    {Absent, TextFile("lockfileVersion: 5.3\n"), TextFile("lockfileVersion: 5.4\n")}
YarnLockFiles == {Absent, TextFile("# yarn lockfile v1\n")}
BunLockFiles == {Absent, TextFile("")}
NpmLockFiles ==
    {Absent, TextFile("{\n  \"lockfileVersion\": 1\n}"),
     TextFile("{\n  \"lockfileVersion\": 2\n}")}
YarnrcFiles ==
    {Absent, Malformed("yarnPath: ["), Parsed("", YarnrcDefault),
     Parsed("yarnPath: .yarn/releases/yarn-3.2.1.cjs\n",
            [yarn_path |-> Some(".yarn/releases/yarn-3.2.1.cjs")])}

Scripts(names) == [PackageJsonDefault EXCEPT !.scripts = Some(names)]

ManagerRootManifests ==
    {Absent, Malformed("{"),
     PackageJsonFile(PackageJsonDefault),
     PackageJsonFile(Scripts({"build"})),
     PackageJsonFile([Scripts({"build", "start"}) EXCEPT
                          !.engines_node = Some("18.x")])}
ManagerNestedManifests == {Absent, Malformed("{"), PackageJsonFile(PackageJsonDefault)}
ManagerInstalledManifests == {Absent, Malformed("{")}

InitManager ==
    /\ \E pnpm \in PnpmLockFiles, yarn \in YarnLockFiles, bun \in BunLockFiles,
          npm \in NpmLockFiles, yarnrc \in YarnrcFiles,
          root \in ManagerRootManifests, nested \in ManagerNestedManifests,
          installed \in ManagerInstalledManifests :
         app = Tree(SOURCE,
                    File("pnpm-lock.yaml", pnpm) @@ File("yarn.lock", yarn)
                    @@ File("bun.lockb", bun) @@ File("package-lock.json", npm)
                    @@ File(".yarnrc.yml", yarnrc) @@ File("package.json", root)
                    @@ File("packages/client/package.json", nested)
                    @@ File("node_modules/left-pad/package.json", installed))
    /\ environment = [NODE_VERSION |-> None]
    /\ nx = NoDelegate
    /\ turbo = NoTurbo
    /\ call = ""
    /\ args = NoArgs
    /\ ret = NoResult

\* The snapshots of the build and start commands: every answer of the two
\* delegates, around every manifest, entry file and manager.
CommandLockfiles ==
    {NoFiles, File("pnpm-lock.yaml", TextFile("lockfileVersion: 5.4\n")),
     File("yarn.lock", TextFile("# yarn lockfile v1\n")),
     File("bun.lockb", TextFile(""))}

CommandManifests ==
    {Absent, Malformed("{")}
    \cup {PackageJsonFile([PackageJsonDefault EXCEPT !.scripts = sc, !.main = mn]) :
            sc \in {None, Some({"build"}), Some({"start", "test"}),
                    Some({"build", "start"})},
            mn \in {None, Some("server.js")}}

EntryFiles ==
    {File("index.js", js) @@ File("index.ts", ts) @@ File("server.js", main) :
        js \in {Absent, TextFile("")}, ts \in {Absent, TextFile("")},
        main \in {Absent, TextFile("")}}

\* What get_nx_build_cmd and get_nx_start_cmd may answer
NxAnswers ==
    {NoDelegate}
    \cup {[applicable |-> TRUE, build_cmd |-> b, start_cmd |-> st] :
            b \in {None, Some("npx nx run web:build:production")},
            st \in {Err, Ok(None), Ok(Some("node dist/apps/web/main.js"))}}

\* What get_actual_build_cmd and get_actual_start_cmd may answer
TurboAnswers ==
    {NoTurbo}
    \cup {[applicable |-> TRUE, build_cmd |-> b, start_cmd |-> st] :
            b \in {Err, Ok(None), Ok(Some("npx turbo run build"))},
            st \in {Err, Ok(None), Ok(Some("npx turbo run start"))}}

InitCommands ==
    /\ \E lock \in CommandLockfiles, root \in CommandManifests,
          entries \in EntryFiles :
         app = Tree(SOURCE, lock @@ File("package.json", root) @@ entries)
    /\ environment = [NODE_VERSION |-> None]
    /\ nx \in NxAnswers
    /\ turbo \in TurboAnswers
    /\ call = ""
    /\ args = NoArgs
    /\ ret = NoResult

\* The snapshots of the dependency scan: manifests at the root, in a
\* workspace package, in an installed package and in a workspace package
\* whose directory name holds the text node_modules.
Deps(deps, dev) ==
    [PackageJsonDefault EXCEPT !.dependencies = deps, !.dev_dependencies = dev]

ScannedManifests ==
    {Absent, Malformed("{"),
     PackageJsonFile(PackageJsonDefault),
     PackageJsonFile(Scripts({"build"})),
     PackageJsonFile(Deps(Some({"react"}), Some({}))),
     PackageJsonFile(Deps(Some({"next", "react"}), None)),
     PackageJsonFile(Deps(None, Some({"next"}))),
     PackageJsonFile(Deps(Some({"react"}), Some({"cypress"})))}

InstalledManifests ==
    {Absent, Malformed("{"), PackageJsonFile(Deps(Some({"next"}), None)),
     PackageJsonFile(Deps(Some({"cypress"}), None))}

ToolManifests ==
    {Absent, PackageJsonFile(Deps(Some({"react"}), None)),
     PackageJsonFile(Deps(Some({"next"}), None)),
     PackageJsonFile(Deps(None, Some({"cypress"})))}

\* Root manifests that declare the dependencies the setup phase looks for
TriggerManifests ==
    {PackageJsonFile(Deps(Some({"puppeteer"}), None)),
     PackageJsonFile(Deps(Some({"react"}), Some({"canvas"}))),
     PackageJsonFile(Deps(Some({"canvas", "puppeteer"}), None))}

\* A lockfile that names canvas, as one written for a package that needs it
CacheLockfiles ==
    CommandLockfiles
    \cup {File("yarn.lock", TextFile("canvas@^2.11.2:\n  version \"2.11.2\"\n"))}

InitCache ==
    /\ \E root \in ScannedManifests \cup TriggerManifests,
          client \in ScannedManifests,
          installed \in InstalledManifests, tool \in ToolManifests,
          lock \in CacheLockfiles :
         app = Tree(SOURCE,
                    lock @@ File("package.json", root)
                    @@ File("packages/client/package.json", client)
                    @@ File("node_modules/next/package.json", installed)
                    @@ File("packages/clean-node_modules/package.json", tool))
    /\ environment = [NODE_VERSION |-> None]
    /\ nx = NoDelegate
    /\ turbo = NoTurbo
    /\ call = ""
    /\ args = NoArgs
    /\ ret = NoResult

-----------------------------------------------------------------------------
(* The entry points                                                        *)

\* The manifest a caller passes to get_nix_node_pkg: the one it read from the
\* tree, or an empty one
PackageJsonArgs ==
    {PackageJsonDefault} \cup
    (IF read_json(app, "package.json").ok
     THEN {read_json(app, "package.json").val} ELSE {})

CallGetNixNodePkg ==
    \E package_json \in PackageJsonArgs :
        /\ call' = "get_nix_node_pkg"
        /\ args' = [package_json |-> Some(package_json)]
        /\ ret' = [NoResult EXCEPT !.get_nix_node_pkg =
                       get_nix_node_pkg(package_json, app, environment)]
        /\ UNCHANGED <<app, environment, nx, turbo>>

CallGetPackageManager ==
    /\ call' = "get_package_manager"
    /\ args' = NoArgs
    /\ ret' = [NoResult EXCEPT !.get_package_manager = get_package_manager(app)]
    /\ UNCHANGED <<app, environment, nx, turbo>>

CallGetInstallCommand ==
    /\ call' = "get_install_command"
    /\ args' = NoArgs
    /\ ret' = [NoResult EXCEPT !.get_install_command = get_install_command(app)]
    /\ UNCHANGED <<app, environment, nx, turbo>>

CallGetNixPackages ==
    /\ call' = "get_nix_packages"
    /\ args' = NoArgs
    /\ ret' = [NoResult EXCEPT !.get_nix_packages =
                   get_nix_packages(app, environment)]
    /\ UNCHANGED <<app, environment, nx, turbo>>

CallGetBuildCmd ==
    /\ call' = "get_build_cmd"
    /\ args' = NoArgs
    /\ ret' = [NoResult EXCEPT !.get_build_cmd = get_build_cmd(app, nx, turbo)]
    /\ UNCHANGED <<app, environment, nx, turbo>>

CallGetStartCmd ==
    /\ call' = "get_start_cmd"
    /\ args' = NoArgs
    /\ ret' = [NoResult EXCEPT !.get_start_cmd = get_start_cmd(app, nx, turbo)]
    /\ UNCHANGED <<app, environment, nx, turbo>>

CallFindNextPackages ==
    /\ call' = "find_next_packages"
    /\ args' = NoArgs
    /\ ret' = [NoResult EXCEPT !.find_next_packages = find_next_packages(app)]
    /\ UNCHANGED <<app, environment, nx, turbo>>

CallGetAllDeps ==
    /\ call' = "get_all_deps"
    /\ args' = NoArgs
    /\ ret' = [NoResult EXCEPT !.get_all_deps = get_all_deps(app)]
    /\ UNCHANGED <<app, environment, nx, turbo>>

CallGetBuildPlan ==
    /\ call' = "get_build_plan"
    /\ args' = NoArgs
    /\ ret' = [NoResult EXCEPT !.get_build_plan =
                   get_build_plan(app, environment, nx, turbo)]
    /\ UNCHANGED <<app, environment, nx, turbo>>

NextVersion == CallGetNixNodePkg
SpecVersion == InitVersion /\ [][NextVersion]_vars

NextManager ==
    \/ CallGetPackageManager
    \/ CallGetInstallCommand
    \/ CallGetNixPackages
    \/ CallGetBuildPlan
SpecManager == InitManager /\ [][NextManager]_vars

NextCommands ==
    \/ CallGetBuildCmd
    \/ CallGetStartCmd
    \/ CallGetBuildPlan
SpecCommands == InitCommands /\ [][NextCommands]_vars

NextCache ==
    \/ CallFindNextPackages
    \/ CallGetAllDeps
    \/ CallGetBuildPlan
SpecCache == InitCache /\ [][NextCache]_vars

-----------------------------------------------------------------------------
(* Properties of version resolution                                        *)

\* The hints of the call that returned
EnvHint == environment.NODE_VERSION
EnginesHint == args.package_json.val.engines_node
NvmrcFile == FileAt(app, ".nvmrc")
NvmrcReadable == NvmrcFile.kind # "unreadable"

NodePkgReturned == call = "get_nix_node_pkg"
NodePkg == ret.get_nix_node_pkg

\* The hint of highest precedence, the .nvmrc one being the text of the file
\* without the surrounding white space and without any letter v
SelectedHint ==
    IF EnvHint.some THEN EnvHint
    ELSE IF EnginesHint.some THEN EnginesHint
    ELSE IF NvmrcFile.kind = "file"
    THEN Some(RemoveChar(Trim(NvmrcFile.text), "v"))
    ELSE None

\* The same, the .nvmrc hint being the trimmed text of the file
SelectedHintTrimmedOnly ==
    IF EnvHint.some THEN EnvHint
    ELSE IF EnginesHint.some THEN EnginesHint
    ELSE IF NvmrcFile.kind = "file" THEN Some(Trim(NvmrcFile.text))
    ELSE None

PkgOfHint(h) ==
    IF h.some THEN resolve_node_version(h.val) ELSE DEFAULT_NODE_PKG_NAME

\* C1 as stated: the hint used is the override, else engines.node, else the
\* trimmed content of .nvmrc, else none, and the package returned is the one
\* the hint of highest precedence resolves to.
C1_TrimmedNvmrcPrecedence ==
    (NodePkgReturned /\ NvmrcReadable)
        => NodePkg = Ok(PkgOfHint(SelectedHintTrimmedOnly))

\* C1 amended: the hint used is the override, else engines.node, else the
\* content of .nvmrc trimmed and with every letter v removed, else none; the
\* package returned is the one that hint resolves to whatever the hints of
\* lower precedence are.  A .nvmrc that exists and cannot be read makes the
\* call fail whatever the other hints are.
C1_Precedence ==
    NodePkgReturned =>
        IF NvmrcReadable
        THEN NodePkg = Ok(PkgOfHint(SelectedHint))
        ELSE NodePkg = Err

\* The override "14" beats engines "18.x" and a .nvmrc
C1_Witness ==
    /\ NodePkgReturned
    /\ EnvHint = Some("14")
    /\ EnginesHint = Some("18.x")
    /\ NvmrcFile.kind = "file"
    /\ NodePkg = Ok("nodejs-14_x")

\* What the claim calls a part: a digit sequence, or x or X
IsDigits(s) == s # "" /\ \A i \in 1..Len(s) : Char(s, i) \in Digits
IsPart(s) == s \in {"x", "X"} \/ IsDigits(s)
IsMinorTail(r) == Len(r) >= 2 /\ Char(r, 1) = "." /\ IsPart(SubSeq(r, 2, Len(r)))
IsMinorPatchTail(r) ==
    \E k \in 3..(Len(r) - 1) :
        /\ Char(r, k) = "."
        /\ IsMinorTail(SubSeq(r, 1, k - 1))
        /\ IsPart(SubSeq(r, k + 1, Len(r)))

\* h is N, N.m or N.m.p
IsVersionOfMajor(h, n) ==
    /\ StartsWith(h, n)
    /\ LET r == SubSeq(h, Len(n) + 1, Len(h))
       IN  r = "" \/ IsMinorTail(r) \/ IsMinorPatchTail(r)

\* h is a range beginning with >=N
IsRangeFromMajor(h, n) ==
    /\ StartsWith(h, ">=" \o n)
    /\ (Len(h) = Len(n) + 2 \/ Char(h, Len(n) + 3) \notin Digits)

\* C2: a selected constraint N, N.m, N.m.p (m and p digits, x or X) or a
\* range beginning with >=N, for N among 14, 16 and 18, resolves to nodejs-N_x.
C2_MajorOnly ==
    (NodePkgReturned /\ NvmrcReadable /\ SelectedHint.some) =>
        \A N \in AVAILABLE_NODE_VERSIONS :
            (\/ IsVersionOfMajor(SelectedHint.val, ToString(N))
             \/ IsRangeFromMajor(SelectedHint.val, ToString(N)))
                => NodePkg = Ok("nodejs-" \o ToString(N) \o "_x")

\* The range of the test suite resolves by its lower bound
C2_Witness ==
    /\ NodePkgReturned
    /\ EnginesHint = Some(">=14.10.3 <16")
    /\ ~EnvHint.some
    /\ NodePkg = Ok("nodejs-14_x")

\* The major numeral a hint is read by: its leading digits, else the digits
\* after a leading >=, else none
MajorNumeral(h) ==
    IF DigitPrefix(h) # "" THEN Some(DigitPrefix(h))
    ELSE IF StartsWith(h, ">=") /\ DigitPrefix(SubSeq(h, 3, Len(h))) # ""
    THEN Some(DigitPrefix(SubSeq(h, 3, Len(h))))
    ELSE None

RECURSIVE StripZeros(_)
StripZeros(s) == IF Len(s) > 1 /\ Char(s, 1) = "0" THEN StripZeros(Tail(s)) ELSE s

IsSupportedNumeral(s) ==
    \E N \in AVAILABLE_NODE_VERSIONS : StripZeros(s) = ToString(N)

\* C3: whatever the hints are, get_nix_node_pkg returns an identifier, and
\* it is the default one when the selected hint is "*", reads as a major
\* number outside 14, 16, 18 (too large for a u32 included), or has neither
\* leading digits nor a leading >= followed by digits.
C3_NeverFailsOnHint ==
    (NodePkgReturned /\ NvmrcReadable) =>
        /\ NodePkg.ok
        /\ (\/ ~SelectedHint.some
            \/ SelectedHint.val = "*"
            \/ ~MajorNumeral(SelectedHint.val).some
            \/ ~IsSupportedNumeral(MajorNumeral(SelectedHint.val).val))
               => NodePkg = Ok(DEFAULT_NODE_PKG_NAME)

\* A major number one past the largest u32 resolves to the default
C3_Witness ==
    /\ NodePkgReturned
    /\ SelectedHint = Some("4294967296")
    /\ NodePkg = Ok(DEFAULT_NODE_PKG_NAME)

-----------------------------------------------------------------------------
(* Properties of the package-manager decisions                             *)

Present(name) == name \in DOMAIN app.fs /\ app.fs[name].kind # "absent"
IsMalformed(name) == Present(name) /\ ~app.fs[name].parse.ok

\* C4: the manager is pnpm if pnpm-lock.yaml is present, else yarn if
\* yarn.lock is, else bun if bun.lockb is, else npm, whatever other files
\* the root holds.
C4_LockfilePrecedence ==
    call = "get_package_manager" =>
        /\ Present("pnpm-lock.yaml") => ret.get_package_manager = "pnpm"
        /\ (~Present("pnpm-lock.yaml") /\ Present("yarn.lock")) => ret.get_package_manager = "yarn"
        /\ (~Present("pnpm-lock.yaml") /\ ~Present("yarn.lock")
              /\ Present("bun.lockb")) => ret.get_package_manager = "bun"
        /\ (~Present("pnpm-lock.yaml") /\ ~Present("yarn.lock")
              /\ ~Present("bun.lockb")) => ret.get_package_manager = "npm"

\* pnpm-lock.yaml together with yarn.lock and package-lock.json yields pnpm
C4_Witness ==
    /\ call = "get_package_manager"
    /\ Present("pnpm-lock.yaml")
    /\ Present("yarn.lock")
    /\ Present("package-lock.json")
    /\ ret.get_package_manager = "pnpm"

\* The first word of a command
RECURSIVE FirstWord(_)
FirstWord(s) ==
    IF s = "" \/ Char(s, 1) = " " THEN "" ELSE Char(s, 1) \o FirstWord(Tail(s))

CacheDirOf(manager) ==
    CASE manager = "npm" -> NPM_CACHE_DIR
      [] manager = "yarn" -> YARN_CACHE_DIR
      [] manager = "pnpm" -> PNPM_CACHE_DIR
      [] manager = "bun" -> BUN_CACHE_DIR

PlanReturned == call = "get_build_plan" /\ ret.get_build_plan.ok
Plan == ret.get_build_plan.val.val
SetupOf(plan) == plan.phases[1]
InstallOf(plan) == plan.phases[2]
BuildOf(plan) == plan.phases[3]

\* C5: in a plan made for a root with a package.json, the install command,
\* the install cache directory and the commands that run the build and start
\* scripts are those of the manager get_package_manager returns: the command
\* is "bun i --no-save" with /root/.bun for bun, "pnpm i --frozen-lockfile"
\* for pnpm, and "npm ci" or "npm i" only for npm.
C5_OneManager ==
    (PlanReturned /\ Present("package.json")) =>
        LET plan == Plan
            install == InstallOf(plan)
            manager == get_package_manager(app)
            executor == IF manager = "bun" THEN "bun" ELSE "node"
        IN  /\ install.cmd.some
            /\ FirstWord(install.cmd.val) = manager
            /\ install.cache_directories[1] = CacheDirOf(manager)
            /\ manager = "bun" => install.cmd.val = "bun i --no-save"
            /\ manager = "pnpm" => install.cmd.val = "pnpm i --frozen-lockfile"
            /\ install.cmd.val \in {"npm ci", "npm i"} => manager = "npm"
            /\ BuildOf(plan).cmd.some
                  => FirstWord(BuildOf(plan).cmd.val) = manager
            /\ plan.start_phase.some
                  => FirstWord(plan.start_phase.val) \in {manager, executor}

PmPkgNames(manager) ==
    CASE manager = "npm" -> {"npm-6_x", "npm-8_x"}
      [] manager = "yarn" -> {"yarn-1_x"}
      [] manager = "pnpm" -> {"pnpm-6_x", "pnpm-7_x"}
      [] manager = "bun" -> {"bun"}

Range(seq) == {seq[i] : i \in 1..Len(seq)}

IsManagerPkg(pkg, manager) ==
    pkg.overlay = Some(NODE_OVERLAY) /\ pkg.name \in PmPkgNames(manager)

\* The manifest get_nix_packages resolves the runtime from
RootManifest == UnwrapOr(read_json(app, "package.json"), PackageJsonDefault)
RuntimePkg == Pkg(get_nix_node_pkg(RootManifest, app, environment).val)

NixPackages == ret.get_nix_packages

C9_MalformedFails ==
    (/\ call = "get_build_plan"
     /\ \/ IsMalformed("package.json")
        \/ IsMalformed("packages/client/package.json")
        \/ /\ IsMalformed(".yarnrc.yml")
           /\ Present("package.json")
           /\ get_package_manager(app) = "yarn")
        => ret.get_build_plan = Err

-----------------------------------------------------------------------------
(* Properties of the build and start commands                              *)

\* The root manifest declares the script
Declares(script) ==
    /\ Present("package.json")
    /\ app.fs["package.json"].parse.ok
    /\ app.fs["package.json"].parse.val.scripts.some
    /\ script \in app.fs["package.json"].parse.val.scripts.val

DeclaredMain ==
    IF Present("package.json") /\ app.fs["package.json"].parse.ok
    THEN app.fs["package.json"].parse.val.main
    ELSE None

\* The tiers of the build command, highest first: each absent or a command
BuildTiers ==
    <<IF nx.applicable THEN nx.build_cmd ELSE None,
      IF turbo.applicable /\ turbo.build_cmd.ok THEN turbo.build_cmd.val ELSE None,
      IF Declares("build")
      THEN Some(get_package_manager(app) \o " run build") ELSE None>>

\* The tiers of the start command, highest first, a delegate that fails
\* counting as one that yields no command
StartTiers ==
    <<IF nx.applicable /\ nx.start_cmd.ok THEN nx.start_cmd.val ELSE None,
      IF turbo.applicable /\ turbo.start_cmd.ok THEN turbo.start_cmd.val ELSE None,
      IF Declares("start")
      THEN Some(get_package_manager(app) \o " run start") ELSE None,
      IF DeclaredMain.some /\ Present(DeclaredMain.val)
      THEN Some((IF get_package_manager(app) = "bun" THEN "bun" ELSE "node")
                \o " " \o DeclaredMain.val)
      ELSE None,
      IF Present("index.js")
      THEN Some((IF get_package_manager(app) = "bun" THEN "bun" ELSE "node")
                \o " index.js")
      ELSE None,
      IF Present("index.ts") /\ get_package_manager(app) = "bun"
      THEN Some("bun index.ts") ELSE None>>

\* The command of the first tier that has one
FirstTier(tiers) ==
    IF \E i \in 1..Len(tiers) : tiers[i].some
    THEN tiers[CHOOSE i \in 1..Len(tiers) :
                  tiers[i].some /\ \A j \in 1..(i - 1) : ~tiers[j].some]
    ELSE None

\* C7: the build command is that of the Nx delegate if it is applicable and
\* yields one, else that of the Turborepo delegate if it is applicable and
\* yields one without failing, else "<manager> run build" if the root
\* manifest declares a build script, else none.
C7_BuildTiers ==
    call = "get_build_cmd" => ret.get_build_cmd = Ok(FirstTier(BuildTiers))

\* Nx applicable without a command and Turborepo applicable and failing fall
\* through to the build script
C7_Witness ==
    /\ call = "get_build_cmd"
    /\ nx.applicable /\ ~nx.build_cmd.some
    /\ turbo.applicable /\ ~turbo.build_cmd.ok
    /\ Declares("build")
    /\ ret.get_build_cmd = Ok(Some("yarn run build"))

\* No manifest consulted by the plan is malformed: what makes get_build_plan
\* fail apart from the start command
ManifestsParse ==
    \A f \in DOMAIN app.fs :
        (FileName(f) = "package.json" /\ ~in_node_modules(app.source \o "/" \o f))
            => app.fs[f].parse.ok

NxStartFails == nx.applicable /\ ~nx.start_cmd.ok

\* C8 as stated: the start command is that of the first tier that applies,
\* the result is absent when none does, and the plan then has its setup,
\* install and build phases and no start phase.
C8_StartTiers ==
    /\ call = "get_start_cmd" => ret.get_start_cmd = Ok(FirstTier(StartTiers))
    /\ (call = "get_build_plan" /\ ManifestsParse) =>
          /\ ret.get_build_plan.ok
          /\ Plan.start_phase = FirstTier(StartTiers)
          /\ <<Plan.phases[1].name, Plan.phases[2].name, Plan.phases[3].name>>
                = <<"setup", "install", "build">>

\* C8 amended: when the Nx delegate is applicable and fails to compute its
\* start command, get_start_cmd and get_build_plan fail with it.  Otherwise
\* the start command is that of the first tier that applies (Nx, Turborepo,
\* start script, main entry on disk, index.js, index.ts under bun), is absent
\* when none does, and the plan made from well-formed manifests then has its
\* setup, install and build phases and no start phase.
C8_StartTiersUnlessNxFails ==
    /\ call = "get_start_cmd" =>
          ret.get_start_cmd =
              IF NxStartFails THEN Err ELSE Ok(FirstTier(StartTiers))
    /\ (call = "get_build_plan" /\ ManifestsParse) =>
          IF NxStartFails THEN ret.get_build_plan = Err
          ELSE /\ ret.get_build_plan.ok
               /\ Plan.start_phase = FirstTier(StartTiers)
               /\ <<Plan.phases[1].name, Plan.phases[2].name, Plan.phases[3].name>>
                     = <<"setup", "install", "build">>

\* A main entry missing on disk and an index.ts under npm: a plan without a
\* start phase
C8_Witness ==
    /\ call = "get_build_plan"
    /\ DeclaredMain = Some("server.js") /\ ~Present("server.js")
    /\ ~Present("index.js") /\ Present("index.ts")
    /\ get_package_manager(app) = "npm"
    /\ turbo.applicable /\ ~turbo.start_cmd.ok
    /\ ret.get_build_plan.ok
    /\ Plan.start_phase = None
    /\ Len(Plan.phases) = 3

-----------------------------------------------------------------------------
(* Properties of the cache directories                                     *)

\* The package.json files of the tree
Manifests == {f \in DOMAIN app.fs : Present(f) /\ FileName(f) = "package.json"}

\* A file is inside node_modules when one of its directories is node_modules
InsideNodeModules(f) == Contains("/" \o f, "/node_modules/")

UsesNext(f) ==
    /\ app.fs[f].parse.ok
    /\ \/ /\ app.fs[f].parse.val.dependencies.some
          /\ "next" \in app.fs[f].parse.val.dependencies.val
       \/ /\ app.fs[f].parse.val.dev_dependencies.some
          /\ "next" \in app.fs[f].parse.val.dev_dependencies.val

\* The manifests outside node_modules that depend on next
NextManifests == {f \in Manifests : ~InsideNodeModules(f) /\ UsesNext(f)}

\* The same, leaving out every path that holds the text node_modules
NextManifestsByText ==
    {f \in Manifests : ~Contains(app.source \o "/" \o f, "node_modules")
                       /\ UsesNext(f)}

NextCacheDirOf(f) ==
    IF f = "package.json" THEN ".next/cache" ELSE Parent(f) \o "/.next/cache"

\* C10: find_next_packages returns the directory ("" for the root) of every
\* package.json outside node_modules that depends on next, and the cache
\* directories of the build phase are the .next/cache of those directories
\* plus node_modules/.cache.
C10_NextCacheDirs ==
    /\ (call = "find_next_packages" /\ ret.find_next_packages.ok) =>
          Range(ret.find_next_packages.val) = {Parent(f) : f \in NextManifests}
    /\ PlanReturned =>
          Range(BuildOf(Plan).cache_directories) =
              {NextCacheDirOf(f) : f \in NextManifests}
              \cup {NODE_MODULES_CACHE_DIR}

\* What the code does: the manifests left out are those whose full path
\* holds the text node_modules anywhere
NextCacheDirsByText ==
    /\ (call = "find_next_packages" /\ ret.find_next_packages.ok) =>
          Range(ret.find_next_packages.val) = {Parent(f) : f \in NextManifestsByText}
    /\ PlanReturned =>
          Range(BuildOf(Plan).cache_directories) =
              {NextCacheDirOf(f) : f \in NextManifestsByText}
              \cup {NODE_MODULES_CACHE_DIR}

-----------------------------------------------------------------------------
(* Properties of whole plans                                               *)

\* The root holds a package.json and nothing else; the manifest declares a
\* build script and no start script, main entry or engines, and no delegate
\* is applicable
OnlyBuildManifest ==
    /\ DOMAIN app.fs = {"package.json"}
    /\ app.fs["package.json"].parse.ok
    /\ Declares("build") /\ ~Declares("start")
    /\ ~RootManifest.main.some
    /\ ~RootManifest.engines_node.some
    /\ ~nx.applicable /\ ~turbo.applicable

\* What the scenario's plan holds apart from the install command: the
\* packages and the cache directory of npm, the build command and no start
\* phase
ScenarioPlan ==
    /\ ret.get_build_plan.ok
    /\ \E i \in 1..Len(SetupOf(Plan).nix_pkgs) :
          IsManagerPkg(SetupOf(Plan).nix_pkgs[i], "npm")
    /\ InstallOf(Plan).cache_directories = <<NPM_CACHE_DIR>>
    /\ BuildOf(Plan).cmd = Some("npm run build")
    /\ Plan.start_phase = None

\* C11 as stated: for a root holding only a manifest that declares a build
\* script, the manager is npm, the plan installs with "npm ci", builds with
\* "npm run build" and has no start phase.
C11_CleanInstallScenario ==
    /\ (call = "get_package_manager" /\ OnlyBuildManifest) =>
           ret.get_package_manager = "npm"
    /\ (call = "get_install_command" /\ OnlyBuildManifest) =>
           ret.get_install_command = Some("npm ci")
    /\ (call = "get_build_plan" /\ OnlyBuildManifest) =>
           ScenarioPlan /\ InstallOf(Plan).cmd = Some("npm ci")

\* C11 amended: for a root holding only a manifest that declares a build
\* script, the manager is npm, the plan installs with "npm i" (the clean
\* install "npm ci" needs package-lock.json), builds with "npm run build"
\* and has no start phase.
C11_LooseInstallScenario ==
    /\ (call = "get_package_manager" /\ OnlyBuildManifest) =>
           ret.get_package_manager = "npm"
    /\ (call = "get_install_command" /\ OnlyBuildManifest) =>
           ret.get_install_command = Some("npm i")
    /\ (call = "get_build_plan" /\ OnlyBuildManifest) =>
           ScenarioPlan /\ InstallOf(Plan).cmd = Some("npm i")

C11_Witness ==
    /\ call = "get_build_plan"
    /\ OnlyBuildManifest
    /\ ret.get_build_plan.ok
    /\ InstallOf(Plan).cmd = Some("npm i")
    /\ BuildOf(Plan).cmd = Some("npm run build")

-----------------------------------------------------------------------------
(* Properties of the dependency scan                                       *)

\* The names a manifest declares as runtime or development dependencies
DeclaredDeps(f) ==
    IF app.fs[f].parse.ok
    THEN Keys(app.fs[f].parse.val.dependencies)
         \cup Keys(app.fs[f].parse.val.dev_dependencies)
    ELSE {}

\* The names declared by the manifests outside node_modules
DepsOutsideNodeModules ==
    UNION {DeclaredDeps(f) : f \in {g \in Manifests : ~InsideNodeModules(g)}}

\* The same, leaving out every path that holds the text node_modules
DepsByText ==
    UNION {DeclaredDeps(f) :
             f \in {g \in Manifests :
                       ~Contains(app.source \o "/" \o g, "node_modules")}}

\* C12: get_all_deps returns the runtime and development dependency names
\* of the manifests outside node_modules and no others, and the install
\* phase has the Cypress cache directory exactly when cypress is one of
\* them.
C12_AllDeps ==
    /\ (call = "get_all_deps" /\ ret.get_all_deps.ok) =>
          ret.get_all_deps.val = DepsOutsideNodeModules
    /\ PlanReturned =>
          (CYPRESS_CACHE_DIR \in Range(InstallOf(Plan).cache_directories)
              <=> "cypress" \in DepsOutsideNodeModules)

\* What the code does: the names are those of the manifests whose full path
\* does not hold the text node_modules
AllDepsByText ==
    /\ (call = "get_all_deps" /\ ret.get_all_deps.ok) =>
          ret.get_all_deps.val = DepsByText
    /\ PlanReturned =>
          (CYPRESS_CACHE_DIR \in Range(InstallOf(Plan).cache_directories)
              <=> "cypress" \in DepsByText)

-----------------------------------------------------------------------------
(* Properties of the setup phase                                           *)

\* C13: the setup phase has the apt packages of puppeteer exactly when the
\* project uses puppeteer and the libraries libuuid and libGL exactly when
\* it uses canvas, each whatever the other dependencies are.
C13_IndependentTriggers ==
    PlanReturned =>
        /\ SetupOf(Plan).apt_pkgs =
              (IF uses_node_dependency(app, "puppeteer")
               THEN PUPPETEER_APT_PKGS ELSE <<>>)
        /\ SetupOf(Plan).nix_libs =
              (IF uses_node_dependency(app, "canvas")
               THEN <<"libuuid", "libGL">> ELSE <<>>)

\* What the code does: canvas is looked for only when puppeteer is not used
CanvasUnlessPuppeteer ==
    PlanReturned =>
        /\ SetupOf(Plan).apt_pkgs =
              (IF uses_node_dependency(app, "puppeteer")
               THEN PUPPETEER_APT_PKGS ELSE <<>>)
        /\ SetupOf(Plan).nix_libs =
              (IF uses_node_dependency(app, "canvas")
                  /\ ~uses_node_dependency(app, "puppeteer")
               THEN <<"libuuid", "libGL">> ELSE <<>>)

=============================================================================
